---- MODULE Spec2Model ----
(***************************************************************************)
(* The font resolution cache (FontSystem, src/font/system/std.rs) and the  *)
(* glyph rasterization cache (SwashCache, src/swash.rs) of cosmic-text.    *)
(*                                                                         *)
(* Lookup threads 1..NThreads call get_font, query, query_monospace and    *)
(* face_name on the shared FONT_SYSTEM; process 0 calls the load           *)
(* functions.  Thread 1 owns the one SwashCache (its methods take          *)
(* &mut self, so it is never shared).  Every step between two lock         *)
(* operations of the code is one action.  A read lock that is taken, used  *)
(* for one map lookup and dropped in the same statement is one action,     *)
(* guarded by the lock being available for reading.                        *)
(***************************************************************************)
EXTENDS Integers, Sequences, FiniteSets, TLC

\* Number of lookup threads.
NThreads == 2
\* Largest number of faces the database is loaded with.
MaxFaces == 2
\* Counters of the observable side effects saturate here.
MaxCount == 2
\* Calls one run makes, over all threads.
MaxCalls == 4

Lookups == 1..NThreads
Procs == 0..NThreads
IsLoader(t) == t = 0
\* The thread that owns the SwashCache.
IsSwashOwner(t) == t = 1

\* Option<T>
None == <<>>
Some(x) == <<x>>

Bump(n) == IF n < MaxCount THEN n + 1 ELSE n

(***************************************************************************)
(* The font database (fontdb, external): a face is the FaceInfo fields the *)
(* code reads, and parses says whether Font::new succeeds on it.  A face's *)
(* fontdb::ID is its position in db, the enumeration order of faces().     *)
(***************************************************************************)
FaceA ==
    [families |-> <<"A">>, post_script_name |-> "A-Regular", monospaced |-> FALSE,
     style |-> "Normal", weight |-> 400, stretch |-> "Normal", parses |-> TRUE]
\* A face with two family names: "B" first, "A" second.
FaceB ==
    [families |-> <<"B", "A">>, post_script_name |-> "B-Regular", monospaced |-> FALSE,
     style |-> "Normal", weight |-> 400, stretch |-> "Normal", parses |-> TRUE]
FaceM ==
    [families |-> <<>>, post_script_name |-> "Mono", monospaced |-> TRUE,
     style |-> "Normal", weight |-> 400, stretch |-> "Normal", parses |-> FALSE]

\* More monospaced faces: a second one like FaceM, and three that differ
\* from it in weight, in style and in stretch.
FaceM2 == [FaceM EXCEPT !.post_script_name = "Mono2"]
FaceMBold == [FaceM EXCEPT !.post_script_name = "Mono-Bold", !.weight = 700]
FaceMItalic == [FaceM EXCEPT !.post_script_name = "Mono-Italic", !.style = "Italic"]
FaceMCondensed == [FaceM EXCEPT !.post_script_name = "Mono-Condensed", !.stretch = "Condensed"]

\* What a font file, a directory or a byte blob holds: the faces it adds.
\* Only font files hold faces with family names here, so a family name is in
\* the database exactly when load_font_file has succeeded for a file that
\* declares it.
FontFiles == {<<FaceA>>, <<FaceB>>}
FontBlobs == {<<FaceM>>}
FontDirs == {<<FaceM, FaceM>>}
\* What load_system_fonts finds when the FontSystem is constructed: nothing,
\* or one face.
SystemFonts == {<<>>, <<FaceM>>}

\* The sequences of at most n elements of S.
RECURSIVE SeqsUpTo(_, _)
SeqsUpTo(S, n) ==
    IF n = 0 THEN {<<>>}
    ELSE LET shorter == SeqsUpTo(S, n - 1)
         IN  shorter \cup {Append(q, x) : q \in shorter, x \in S}

\* Databases that query_monospace is asked to scan: faces that qualify and
\* faces that do not, in every order.
MonoFaces == {FaceA, FaceM, FaceM2, FaceMBold, FaceMItalic, FaceMCondensed}
MonoCatalogs == SeqsUpTo(MonoFaces, MaxFaces)

\* Attrs values the callers pass; the default Attrs is the first.
DefaultAttrs ==
    [monospaced |-> FALSE, stretch |-> "Normal", style |-> "Normal", weight |-> 400]
AttrsInputs == {DefaultAttrs, [DefaultAttrs EXCEPT !.monospaced = TRUE]}
\* query_monospace reads style, weight and stretch only.
MonoAttrsInputs == {DefaultAttrs}
FamilyInputs == {<<"A">>}

\* The FontAttrs key query builds from its arguments.
FontAttrs(family, attrs) ==
    [family |-> family, monospaced |-> attrs.monospaced, stretch |-> attrs.stretch,
     style |-> attrs.style, weight |-> attrs.weight]

\* The key query_monospace builds from its argument.
MonoKey(attrs) == <<attrs.style, attrs.weight, attrs.stretch>>

\* The ids a caller can hold: those of the loaded faces, and 0 for an id
\* that names no face.
IdInputs(d) == 0..Len(d)

HasFace(d, id) == id \in 1..Len(d)

VARIABLES
    db,               \* FontSystem.db: the faces, in enumeration order
    shared,           \* ids whose face data make_shared_face_data has shared
    font_cache,       \* FontSystem.font_cache: id -> Option<Font>
    quey_cache,       \* FontSystem.quey_cache: FontAttrs -> Option<ID>
    monospace_cache,  \* FontSystem.monospace_cache: (style, weight, stretch) -> Option<ID>
    locks,            \* the four RwLocks: writer, readers, parked writers
    image_cache,      \* SwashCache.image_cache: CacheKey -> Option<SwashImage>
    th,               \* each thread: its position in the call it is in
    obs,              \* what a test double sees: engine calls counted,
                      \* warnings logged, keys asked for before a load
    calls,            \* calls begun so far
    outline_command_cache,  \* SwashCache.outline_command_cache: CacheKey -> Option<commands>
    font_system,      \* the FontSystem the caller hands to get_outline_commands:
                      \* its db and its font_cache
    layout            \* the CacheKeys that layout has handed the SwashCache's owner

vars ==
    <<db, shared, font_cache, quey_cache, monospace_cache, locks, image_cache, th, obs,
      calls, outline_command_cache, font_system, layout>>

\* What the operations of FONT_SYSTEM and get_image never touch.
others == <<outline_command_cache, font_system, layout>>

LockNames == {"db", "font_cache", "quey_cache", "monospace_cache"}

(***************************************************************************)
(* HashMap and parking_lot::RwLock.                                        *)
(***************************************************************************)
EmptyMap == [k \in {} |-> None]
\* HashMap::insert: the value of k becomes v, whatever it was.
Insert(m, k, v) == [x \in DOMAIN m \cup {k} |-> IF x = k THEN v ELSE m[x]]
\* Vacant as it would be if the entry were never looked at.
VacantAlways(m, k) == TRUE
\* HashMap::entry(k) is Vacant: or_insert_with runs its closure only then.
Vacant(m, k) == k \notin DOMAIN m

\* read() succeeds when no writer holds the lock and none is parked on it.
CanRead(l) == locks[l].w = {} /\ locks[l].q = {}
\* write() succeeds when nobody holds the lock.
CanWrite(l) == locks[l].w = {} /\ locks[l].r = {}
AcquireW(L, l, t) == [L EXCEPT ![l].w = {t}, ![l].q = @ \ {t}]
ReleaseW(L, l) == [L EXCEPT ![l].w = {}]
AcquireR(L, l, t) == [L EXCEPT ![l].r = @ \cup {t}]
ReleaseR(L, l, t) == [L EXCEPT ![l].r = @ \ {t}]
\* write() that is granted and dropped within one statement.
PassW(L, l, t) == [L EXCEPT ![l].q = @ \ {t}]

\* The lock a thread at this position asks to write.
WriteLockAt(pc) ==
    CASE pc = "gf_w" -> "font_cache"
      [] pc = "gf_dbw" -> "db"
      [] pc = "q_w" -> "quey_cache"
      [] pc = "qm_some" -> "monospace_cache"
      [] pc = "qm_none" -> "monospace_cache"
      [] pc = "ld_w" -> "db"
      [] OTHER -> "none"

(***************************************************************************)
(* The external engines, at their interface.                               *)
(***************************************************************************)
Min(S) == CHOOSE x \in S : \A y \in S : x <= y

\* Database::query: the faces that carry the first requested family name
\* that any face carries.  Which of them is the best match for style, weight
\* and stretch is the engine's policy: any of them may be returned.
FamilyMatches(d, name) ==
    {i \in 1..Len(d) : \E j \in 1..Len(d[i].families) : d[i].families[j] = name}
DbQuery(d, families, style, weight, stretch) ==
    LET hit == {j \in 1..Len(families) : FamilyMatches(d, families[j]) # {}}
    IN  IF hit = {} THEN {None}
        ELSE {Some(i) : i \in FamilyMatches(d, families[Min(hit)])}

\* Font::new(face), after db.face(id)?.
Construct(d, id) ==
    IF ~HasFace(d, id) THEN None
    ELSE IF d[id].parses THEN Some(id) ELSE None

\* FirstMono as it would be if the loop did not test the monospaced flag.
FirstFaceAnyPitch(d, attrs) ==
    LET fit == {i \in 1..Len(d) :
                    /\ d[i].weight = attrs.weight
                    /\ d[i].stretch = attrs.stretch
                    /\ d[i].style = attrs.style}
    IN  IF fit = {} THEN None ELSE Some(Min(fit))

\* FirstMono as it would be if the loop went on after a match and the last
\* matching face won.
LastMono(d, attrs) ==
    LET fit == {i \in 1..Len(d) :
                    /\ d[i].monospaced
                    /\ d[i].weight = attrs.weight
                    /\ d[i].stretch = attrs.stretch
                    /\ d[i].style = attrs.style}
    IN  IF fit = {} THEN None ELSE Some(CHOOSE x \in fit : \A y \in fit : x >= y)

\* The for loop of query_monospace: the first face, in enumeration order,
\* that is monospaced and has exactly the requested weight, stretch and style.
FirstMono(d, attrs) ==
    LET fit == {i \in 1..Len(d) :
                    /\ d[i].monospaced
                    /\ d[i].weight = attrs.weight
                    /\ d[i].stretch = attrs.stretch
                    /\ d[i].style = attrs.style}
    IN  IF fit = {} THEN None ELSE Some(Min(fit))

\* FaceName as it would be if the PostScript name were preferred.
FaceNamePostScript(d, id) ==
    IF HasFace(d, id) THEN d[id].post_script_name ELSE "invalid font id"

\* face_name: the face's first family name, its PostScript name when it has
\* no family name.
FaceName(d, id) ==
    IF HasFace(d, id)
    THEN IF Len(d[id].families) > 0 THEN d[id].families[1] ELSE d[id].post_script_name
    ELSE "invalid font id"

\* Render::render on a glyph of a usable font: glyph 1 has an outline and
\* renders to a 2x2 mask, glyph 2 has no renderable source.
\* i32 and u32.  A u32 is kept as its two 16-bit halves, so that the values
\* from 2^31 up can be written down.
I32Max == 2147483647
I32Min == -I32Max - 1
Half == 65536
U32(hi, lo) == [hi |-> hi, lo |-> lo]
\* `as i32`: the same 32 bits, read as two's complement.
AsI32(u) ==
    IF u.hi < Half \div 2 THEN u.hi * Half + u.lo ELSE (u.hi - Half) * Half + u.lo
\* a + b leaves the i32 range: a panic where overflow checks are compiled in,
\* a wrap where they are not.
AddOverflows(a, b) == (b > 0 /\ a > I32Max - b) \/ (b < 0 /\ a < I32Min - b)
WrappingAdd(a, b) ==
    IF ~AddOverflows(a, b) THEN a + b
    ELSE IF b > 0 THEN (a + I32Min) + (b + I32Min)
    ELSE (a - I32Min) + (b - I32Min)
NegOverflows(a) == a = I32Min
WrappingNeg(a) == IF a = I32Min THEN I32Min ELSE -a

\* A Vec<u8>, kept as a run of bytes and the number of times the run
\* repeats, so that a vector of gigabytes can be written down.
Repeat(run, times) == [run |-> run, times |-> times]
Bytes(run) == Repeat(run, U32(0, 1))
\* j < data.len(), for the indexes j that the model reaches (all below 2^16).
InData(data, j) == data.times.hi > 0 \/ j < Len(data.run) * data.times.lo
\* data[j], j from 0.
Byte(data, j) == data.run[(j % Len(data.run)) + 1]

MaskImage ==
    [content |-> "Mask",
     placement |-> [left |-> 1, top |-> 3, width |-> U32(0, 2), height |-> U32(0, 2)],
     data |-> Bytes(<<255, 255, 255, 255>>)]
GlyphInputs == {1, 2}
\* A font whose glyph 1 has a standard outline only, glyph 2 nothing to draw,
\* glyph 3 a color outline only, glyph 4 both.
SwashGlyphs == {1, 2, 3, 4}
HasOutline(g) == g \in {1, 4}
HasColorOutline(g) == g \in {3, 4}
ColorImage ==
    [content |-> "Color",
     placement |-> [left |-> 0, top |-> 2, width |-> U32(0, 2), height |-> U32(0, 1)],
     data |-> Bytes(<<10, 20, 30, 40, 50, 60, 70, 80>>)]
\* .offset(offset): the subpixel bins shift the glyph, and with it the
\* coverage of the pixels.
BinIndex(b) == IF b = "Zero" THEN 0 ELSE 1
Coverage(key) == 255 - 64 * BinIndex(key.x_bin) - 32 * BinIndex(key.y_bin)
\* Render::new(&[ColorOutline(0), ColorBitmap(BestFit), Outline]).render:
\* the first source the glyph has.
Render(key) ==
    IF HasColorOutline(key.glyph_id) THEN Some(ColorImage)
    ELSE IF HasOutline(key.glyph_id)
         THEN Some([MaskImage EXCEPT !.data = Bytes([i \in 1..4 |-> Coverage(key)])])
         ELSE None
OutlineCommands == <<"MoveTo", "LineTo", "Close">>
ColorOutlineCommands == <<"MoveTo", "QuadTo", "Close">>
ScaleOutline(g) == IF HasOutline(g) THEN Some(OutlineCommands) ELSE None
ScaleColorOutline(g) == IF HasColorOutline(g) THEN Some(ColorOutlineCommands) ELSE None
\* Option::or_else
OrElse(a, b) == IF a # None THEN a ELSE b
\* The keys the owner can ask for: those of layout whose id it can hold.
CacheKeyInputs(d) == {k \in layout : k.font_id \in IdInputs(d)}

QueryKeys == {FontAttrs(f, a) : f \in FamilyInputs, a \in AttrsInputs}
MonoKeys == {MonoKey(a) : a \in MonoAttrsInputs}
AllCacheKeys ==
    [font_id : 0..MaxFaces, glyph_id : GlyphInputs, font_size : {16},
     x_bin : {"Zero"}, y_bin : {"Zero"}]

\* Some face of d declares name as one of its family names.
Declares(d, name) == FamilyMatches(d, name) # {}
\* name is the first family name of every face of d that declares it.
FirstNameOnly(d, name) == \A i \in FamilyMatches(d, name) : d[i].families[1] = name

(***************************************************************************)
(* Threads.  A call that has produced its value sits at "ret" with the     *)
(* value in tmp until the caller takes it.                                 *)
(***************************************************************************)
IdleThread ==
    [pc |-> "idle", op |-> "none", arg |-> None, tmp |-> None, late |-> FALSE, via |-> "none"]

\* Caches, locks and threads of a FontSystem and a SwashCache just constructed.
Fresh ==
    /\ shared = {}
    /\ font_cache = EmptyMap
    /\ quey_cache = EmptyMap
    /\ monospace_cache = EmptyMap
    /\ locks = [l \in LockNames |-> [w |-> {}, r |-> {}, q |-> {}]]
    /\ image_cache = EmptyMap
    /\ outline_command_cache = EmptyMap
    /\ th = [t \in Procs |-> IdleThread]
    /\ obs = [early |-> {},
              q_ret |-> [k \in QueryKeys |-> {}],
              n_db_query |-> [k \in QueryKeys |-> 0],
              n_construct |-> [i \in 0..MaxFaces |-> 0],
              n_warn |-> [k \in layout |-> 0],
              n_render |-> [k \in layout |-> 0],
              n_scale |-> [k \in layout |-> 0]]
    /\ calls = 0

\* A FontSystem of the caller's, just constructed over the faces d
\* (new_with_locale_and_db takes any database, the empty one included).
OwnFontSystem(d) == [db |-> d, shared |-> {}, font_cache |-> EmptyMap]

Init ==
    /\ db \in SystemFonts
    /\ layout = AllCacheKeys
    /\ font_system = OwnFontSystem(<<>>)
    /\ Fresh

Begin(t, op, arg, pc, late) ==
    /\ calls < MaxCalls
    /\ calls' = calls + 1
    /\ th' = [th EXCEPT ![t] = [IdleThread EXCEPT !.pc = pc, !.op = op, !.arg = arg, !.late = late]]
Goto(t, pc) == th' = [th EXCEPT ![t].pc = pc]
\* The call yields r; via tells which path produced it.
Return(t, r, via) == th' = [th EXCEPT ![t].pc = "ret", ![t].tmp = r, ![t].via = via]

\* The caller takes the value.
Exit(t) ==
    /\ th[t].pc = "ret"
    /\ th' = [th EXCEPT ![t] = IdleThread]
    /\ UNCHANGED <<others, calls, db, shared, font_cache, quey_cache, monospace_cache, locks,
                   image_cache, obs>>

\* A thread whose write() finds the lock taken parks on it.
Park(t) ==
    /\ WriteLockAt(th[t].pc) # "none"
    /\ ~CanWrite(WriteLockAt(th[t].pc))
    /\ t \notin locks[WriteLockAt(th[t].pc)].q
    /\ locks' = [locks EXCEPT ![WriteLockAt(th[t].pc)].q = @ \cup {t}]
    /\ UNCHANGED <<others, calls, db, shared, font_cache, quey_cache, monospace_cache, image_cache, th, obs>>

(***************************************************************************)
(* FontSystem::get_font, called directly or by swash_image.                *)
(***************************************************************************)
\* The CacheKey of a call of the SwashCache.
KeyOf(t) == IF th[t].op = "with_pixels" THEN th[t].arg.key ELSE th[t].arg
FontId(t) == IF th[t].op = "get_font" THEN th[t].arg ELSE KeyOf(t).font_id

\* get_font hands f back: to the caller, or to swash_image.
GfReturn(t, f, via) ==
    IF th[t].op = "get_font"
    THEN Return(t, f, via)
    ELSE th' = [th EXCEPT ![t].pc = "gi_ret", ![t].tmp = f]

CallGetFont(t) ==
    /\ ~IsLoader(t)
    /\ th[t].pc = "idle"
    /\ \E id \in IdInputs(db) : Begin(t, "get_font", id, "gf_r", FALSE)
    /\ UNCHANGED <<others, db, shared, font_cache, quey_cache, monospace_cache, locks,
                   image_cache, obs>>

\* if let Some(f) = self.font_cache.read().get(&id) { return f.clone(); }
GfRead(t) ==
    /\ th[t].pc = "gf_r"
    /\ CanRead("font_cache")
    /\ IF FontId(t) \in DOMAIN font_cache
       THEN GfReturn(t, font_cache[FontId(t)], "hit")
       ELSE Goto(t, "gf_w")
    /\ UNCHANGED <<others, calls, db, shared, font_cache, quey_cache, monospace_cache, locks,
                   image_cache, obs>>

\* GfWrite as it would be with insert in place of entry: the closure runs
\* whether or not another thread has filled the entry meanwhile.
GfWriteNoRecheck(t) ==
    /\ th[t].pc = "gf_w"
    /\ CanWrite("font_cache")
    /\ Goto(t, "gf_dbw")
    /\ locks' = AcquireW(locks, "font_cache", t)
    /\ UNCHANGED <<others, calls, db, shared, font_cache, quey_cache, monospace_cache, image_cache, obs>>

\* let mut font_cache = self.font_cache.write(); font_cache.entry(id)
GfWrite(t) ==
    /\ th[t].pc = "gf_w"
    /\ CanWrite("font_cache")
    /\ IF Vacant(font_cache, FontId(t))
       THEN /\ Goto(t, "gf_dbw")
            /\ locks' = AcquireW(locks, "font_cache", t)
       ELSE /\ GfReturn(t, font_cache[FontId(t)], "occupied")
            /\ locks' = PassW(locks, "font_cache", t)
    /\ UNCHANGED <<others, calls, db, shared, font_cache, quey_cache, monospace_cache, image_cache, obs>>

\* GfMakeShared as it would be if the database write guard were bound to a
\* name and so lived to the end of the closure.
GfMakeSharedHeld(t) ==
    /\ th[t].pc = "gf_dbw"
    /\ CanWrite("db")
    /\ shared' = shared \cup ({FontId(t)} \cap (1..Len(db)))
    /\ obs' = [obs EXCEPT !.n_construct[FontId(t)] = Bump(@)]
    /\ locks' = AcquireW(locks, "db", t)
    /\ Goto(t, "gf_dbr")
    /\ UNCHANGED <<others, calls, db, font_cache, quey_cache, monospace_cache, image_cache>>

\* unsafe { self.db.write().make_shared_face_data(id); }
GfMakeShared(t) ==
    /\ th[t].pc = "gf_dbw"
    /\ CanWrite("db")
    /\ shared' = shared \cup ({FontId(t)} \cap (1..Len(db)))
    /\ obs' = [obs EXCEPT !.n_construct[FontId(t)] = Bump(@)]
    /\ locks' = PassW(locks, "db", t)
    /\ Goto(t, "gf_dbr")
    /\ UNCHANGED <<others, calls, db, font_cache, quey_cache, monospace_cache, image_cache>>

\* let db = self.db.read(); let face = db.face(id)?; Font::new(face); the
\* entry takes the closure's value, and both guards are dropped.
GfConstruct(t) ==
    /\ th[t].pc = "gf_dbr"
    /\ CanRead("db")
    /\ font_cache' = Insert(font_cache, FontId(t), Construct(db, FontId(t)))
    /\ locks' = ReleaseW(locks, "font_cache")
    /\ GfReturn(t, Construct(db, FontId(t)), "computed")
    /\ UNCHANGED <<others, calls, db, shared, quey_cache, monospace_cache, image_cache, obs>>

(***************************************************************************)
(* FontSystem::query                                                       *)
(***************************************************************************)
QueryKey(t) == FontAttrs(th[t].arg.family, th[t].arg.attrs)

\* query yields r: the test double notes it under the call's key.
QReturn(t, r, via) ==
    /\ Return(t, r, via)
    /\ obs' = [obs EXCEPT !.q_ret[QueryKey(t)] = @ \cup {r}]

\* late: a face declaring the requested family is loaded when the call
\* begins; obs.early: the keys some call asked for before that.
CallQuery(t) ==
    /\ ~IsLoader(t)
    /\ th[t].pc = "idle"
    /\ \E f \in FamilyInputs, a \in AttrsInputs :
          /\ Begin(t, "query", [family |-> f, attrs |-> a], "q_r", Declares(db, f[1]))
          /\ obs' = [obs EXCEPT !.early = IF Declares(db, f[1]) THEN @
                                         ELSE @ \cup {FontAttrs(f, a)}]
    /\ UNCHANGED <<others, db, shared, font_cache, quey_cache, monospace_cache, locks, image_cache>>

\* QRead as it would be if query took the database lock before it looked
\* in its cache.
QReadTakesDb(t) ==
    /\ th[t].pc = "q_r"
    /\ CanRead("db")
    /\ CanRead("quey_cache")
    /\ IF QueryKey(t) \in DOMAIN quey_cache
       THEN QReturn(t, quey_cache[QueryKey(t)], "hit")
       ELSE Goto(t, "q_w") /\ obs' = obs
    /\ UNCHANGED <<others, calls, db, shared, font_cache, quey_cache, monospace_cache, locks,
                   image_cache>>

\* if let Some(f) = self.quey_cache.read().get(&font_attrs) { return *f; }
QRead(t) ==
    /\ th[t].pc = "q_r"
    /\ CanRead("quey_cache")
    /\ IF QueryKey(t) \in DOMAIN quey_cache
       THEN QReturn(t, quey_cache[QueryKey(t)], "hit")
       ELSE Goto(t, "q_w") /\ obs' = obs
    /\ UNCHANGED <<others, calls, db, shared, font_cache, quey_cache, monospace_cache, locks,
                   image_cache>>

\* QWrite as it would be with insert in place of entry.
QWriteNoRecheck(t) ==
    /\ th[t].pc = "q_w"
    /\ CanWrite("quey_cache")
    /\ Goto(t, "q_db")
    /\ locks' = AcquireW(locks, "quey_cache", t)
    /\ UNCHANGED <<others, calls, db, shared, font_cache, quey_cache, monospace_cache, image_cache, obs>>

\* self.quey_cache.write().entry(font_attrs)
QWrite(t) ==
    /\ th[t].pc = "q_w"
    /\ CanWrite("quey_cache")
    /\ IF Vacant(quey_cache, QueryKey(t))
       THEN /\ Goto(t, "q_db")
            /\ locks' = AcquireW(locks, "quey_cache", t)
            /\ obs' = obs
       ELSE /\ QReturn(t, quey_cache[QueryKey(t)], "occupied")
            /\ locks' = PassW(locks, "quey_cache", t)
    /\ UNCHANGED <<others, calls, db, shared, font_cache, quey_cache, monospace_cache, image_cache>>

\* QDbQuery as it would be if the closure's value were returned and not stored.
QDbQueryNoInsert(t) ==
    /\ th[t].pc = "q_db"
    /\ CanRead("db")
    /\ \E r \in DbQuery(db, th[t].arg.family, th[t].arg.attrs.style,
                        th[t].arg.attrs.weight, th[t].arg.attrs.stretch) :
          /\ th' = [th EXCEPT ![t].pc = "ret", ![t].tmp = r, ![t].via = "computed"]
          /\ obs' = [obs EXCEPT !.n_db_query[QueryKey(t)] = Bump(@),
                                !.q_ret[QueryKey(t)] = @ \cup {r}]
    /\ locks' = ReleaseW(locks, "quey_cache")
    /\ UNCHANGED <<others, calls, db, shared, font_cache, quey_cache, monospace_cache, image_cache>>

\* .or_insert_with(|| self.db.read().query(&Query { .. }))
QDbQuery(t) ==
    /\ th[t].pc = "q_db"
    /\ CanRead("db")
    /\ \E r \in DbQuery(db, th[t].arg.family, th[t].arg.attrs.style,
                        th[t].arg.attrs.weight, th[t].arg.attrs.stretch) :
          /\ quey_cache' = Insert(quey_cache, QueryKey(t), r)
          /\ th' = [th EXCEPT ![t].pc = "ret", ![t].tmp = r, ![t].via = "computed"]
          /\ obs' = [obs EXCEPT !.n_db_query[QueryKey(t)] = Bump(@),
                                !.q_ret[QueryKey(t)] = @ \cup {r}]
    /\ locks' = ReleaseW(locks, "quey_cache")
    /\ UNCHANGED <<others, calls, db, shared, font_cache, monospace_cache, image_cache>>

(***************************************************************************)
(* FontSystem::query_monospace                                             *)
(***************************************************************************)
CallQueryMonospace(t) ==
    /\ ~IsLoader(t)
    /\ th[t].pc = "idle"
    /\ \E a \in MonoAttrsInputs : Begin(t, "query_monospace", a, "qm_r", FALSE)
    /\ UNCHANGED <<others, db, shared, font_cache, quey_cache, monospace_cache, locks,
                   image_cache, obs>>

\* if let Some(f) = self.monospace_cache.read().get(&key) { return *f; }
QmRead(t) ==
    /\ th[t].pc = "qm_r"
    /\ CanRead("monospace_cache")
    /\ IF MonoKey(th[t].arg) \in DOMAIN monospace_cache
       THEN Return(t, monospace_cache[MonoKey(th[t].arg)], "hit")
       ELSE Goto(t, "qm_db")
    /\ UNCHANGED <<others, calls, db, shared, font_cache, quey_cache, monospace_cache, locks,
                   image_cache, obs>>

\* for face in self.db.read().faces(): the read guard lives as long as the
\* loop, so it is still held when a matching face is found, and it is
\* dropped when the loop ends without one.
QmScan(t) ==
    /\ th[t].pc = "qm_db"
    /\ CanRead("db")
    /\ IF FirstMono(db, th[t].arg) # None
       THEN /\ th' = [th EXCEPT ![t].pc = "qm_some", ![t].tmp = FirstMono(db, th[t].arg)]
            /\ locks' = AcquireR(locks, "db", t)
       ELSE /\ Goto(t, "qm_none")
            /\ locks' = locks
    /\ UNCHANGED <<others, calls, db, shared, font_cache, quey_cache, monospace_cache, image_cache, obs>>

\* self.monospace_cache.write().insert(key, Some(face.id)); return Some(face.id);
QmInsertSome(t) ==
    /\ th[t].pc = "qm_some"
    /\ CanWrite("monospace_cache")
    /\ monospace_cache' = Insert(monospace_cache, MonoKey(th[t].arg), th[t].tmp)
    /\ locks' = ReleaseR(PassW(locks, "monospace_cache", t), "db", t)
    /\ Return(t, th[t].tmp, "computed")
    /\ UNCHANGED <<others, calls, db, shared, font_cache, quey_cache, image_cache, obs>>

\* self.monospace_cache.write().insert(key, None); None
QmInsertNone(t) ==
    /\ th[t].pc = "qm_none"
    /\ CanWrite("monospace_cache")
    /\ monospace_cache' = Insert(monospace_cache, MonoKey(th[t].arg), None)
    /\ locks' = PassW(locks, "monospace_cache", t)
    /\ Return(t, None, "computed")
    /\ UNCHANGED <<others, calls, db, shared, font_cache, quey_cache, image_cache, obs>>

(***************************************************************************)
(* FontSystem::face_name                                                   *)
(***************************************************************************)
CallFaceName(t) ==
    /\ ~IsLoader(t)
    /\ th[t].pc = "idle"
    /\ \E id \in IdInputs(db) : Begin(t, "face_name", id, "fn", FALSE)
    /\ UNCHANGED <<others, db, shared, font_cache, quey_cache, monospace_cache, locks,
                   image_cache, obs>>

\* self.db.read().face(id), and the name taken from it
FaceNameRead(t) ==
    /\ th[t].pc = "fn"
    /\ CanRead("db")
    /\ Return(t, FaceName(db, th[t].arg), "computed")
    /\ UNCHANGED <<others, calls, db, shared, font_cache, quey_cache, monospace_cache, locks,
                   image_cache, obs>>

(***************************************************************************)
(* load_font_file, load_fonts_dir, load_font_data                          *)
(***************************************************************************)
\* A path that cannot be read adds nothing and yields Err.
LoadFileInputs ==
    {[ok |-> TRUE, faces |-> f] : f \in FontFiles} \cup {[ok |-> FALSE, faces |-> <<>>]}

Fits(src) == Len(db) + Len(src.faces) <= MaxFaces

CallLoadFontFile(t) ==
    /\ IsLoader(t)
    /\ th[t].pc = "idle"
    /\ \E src \in LoadFileInputs :
          /\ Fits(src)
          /\ Begin(t, "load_font_file", src, "ld_w", FALSE)
    /\ UNCHANGED <<others, db, shared, font_cache, quey_cache, monospace_cache, locks,
                   image_cache, obs>>

CallLoadFontsDir(t) ==
    /\ IsLoader(t)
    /\ th[t].pc = "idle"
    /\ \E d \in FontDirs :
          /\ Fits([ok |-> TRUE, faces |-> d])
          /\ Begin(t, "load_fonts_dir", [ok |-> TRUE, faces |-> d], "ld_w", FALSE)
    /\ UNCHANGED <<others, db, shared, font_cache, quey_cache, monospace_cache, locks,
                   image_cache, obs>>

CallLoadFontData(t) ==
    /\ IsLoader(t)
    /\ th[t].pc = "idle"
    /\ \E f \in FontBlobs :
          /\ Fits([ok |-> TRUE, faces |-> f])
          /\ Begin(t, "load_font_data", [ok |-> TRUE, faces |-> f], "ld_w", FALSE)
    /\ UNCHANGED <<others, db, shared, font_cache, quey_cache, monospace_cache, locks,
                   image_cache, obs>>

\* FONT_SYSTEM.db.write()
LoadAcquire(t) ==
    /\ th[t].pc = "ld_w"
    /\ CanWrite("db")
    /\ locks' = AcquireW(locks, "db", t)
    /\ Goto(t, "ld_hold")
    /\ UNCHANGED <<others, calls, db, shared, font_cache, quey_cache, monospace_cache, image_cache, obs>>

\* What a load changes, holding the write guard: the faces are appended.
Loaded(d, src) == d \o src.faces

\* LoadCommit as it would be if a load invalidated the query cache.
LoadCommitClears(t) ==
    /\ th[t].pc = "ld_hold"
    /\ db' = Loaded(db, th[t].arg)
    /\ quey_cache' = EmptyMap
    /\ locks' = ReleaseW(locks, "db")
    /\ Return(t, IF th[t].arg.ok THEN "Ok" ELSE "Err", "computed")
    /\ UNCHANGED <<others, calls, shared, font_cache, monospace_cache, image_cache, obs>>

\* .load_font_file(path) / .load_fonts_dir(path) / .load_font_data(data)
LoadCommit(t) ==
    /\ th[t].pc = "ld_hold"
    /\ db' = Loaded(db, th[t].arg)
    /\ locks' = ReleaseW(locks, "db")
    /\ Return(t, IF th[t].arg.ok THEN "Ok" ELSE "Err", "computed")
    /\ UNCHANGED <<others, calls, shared, font_cache, quey_cache, monospace_cache, image_cache, obs>>

(***************************************************************************)
(* SwashCache::get_image and swash_image                                   *)
(***************************************************************************)
\* CallGetImage as it would be if it ran swash_image on every call, as
\* get_image_uncached does.
CallGetImageUncached(t) ==
    /\ IsSwashOwner(t)
    /\ th[t].pc = "idle"
    /\ \E key \in CacheKeyInputs(db) : Begin(t, "get_image", key, "gf_r", FALSE)
    /\ UNCHANGED <<others, db, shared, font_cache, quey_cache, monospace_cache, locks,
                   image_cache, obs>>

\* self.image_cache.entry(cache_key): an occupied entry is the answer; a
\* vacant one runs swash_image, which starts with FONT_SYSTEM.get_font.
CallGetImage(t) ==
    /\ IsSwashOwner(t)
    /\ th[t].pc = "idle"
    /\ \E key \in CacheKeyInputs(db) :
          IF Vacant(image_cache, key)
          THEN Begin(t, "get_image", key, "gf_r", FALSE)
          ELSE /\ calls < MaxCalls
               /\ calls' = calls + 1
               /\ th' = [th EXCEPT ![t] =
                            [IdleThread EXCEPT !.pc = "ret", !.op = "get_image", !.arg = key,
                                               !.tmp = image_cache[key], !.via = "occupied"]]
    /\ UNCHANGED <<others, db, shared, font_cache, quey_cache, monospace_cache, locks,
                   image_cache, obs>>

\* The image swash_image yields once get_font has answered with font.
SwashImageOf(font, key) == IF font = None THEN None ELSE Render(key)

\* SwashImage as it would be if the map took images only, and a None went
\* to the caller without an entry.
SwashImageSkipsNone(t) ==
    /\ th[t].pc = "gi_ret"
    /\ th[t].op = "get_image"
    /\ image_cache' = IF SwashImageOf(th[t].tmp, th[t].arg) = None THEN image_cache
                      ELSE Insert(image_cache, th[t].arg, SwashImageOf(th[t].tmp, th[t].arg))
    /\ obs' = [obs EXCEPT
                  !.n_warn[th[t].arg] = IF th[t].tmp = None THEN Bump(@) ELSE @,
                  !.n_render[th[t].arg] = IF th[t].tmp = None THEN @ ELSE Bump(@)]
    /\ Return(t, SwashImageOf(th[t].tmp, th[t].arg), "computed")
    /\ UNCHANGED <<others, calls, db, shared, font_cache, quey_cache, monospace_cache, locks>>

\* SwashImage as it would be if the map's key left the subpixel bins out.
SwashImageSharedBins(t) ==
    /\ th[t].pc = "gi_ret"
    /\ th[t].op = "get_image"
    /\ image_cache' = [k \in DOMAIN image_cache
                            \cup {[th[t].arg EXCEPT !.x_bin = "Zero", !.y_bin = "Zero"]} |->
                          IF k \in DOMAIN image_cache THEN image_cache[k]
                          ELSE SwashImageOf(th[t].tmp, th[t].arg)]
    /\ obs' = [obs EXCEPT
                  !.n_warn[th[t].arg] = IF th[t].tmp = None THEN Bump(@) ELSE @,
                  !.n_render[th[t].arg] = IF th[t].tmp = None THEN @ ELSE Bump(@)]
    /\ Return(t, SwashImageOf(th[t].tmp, th[t].arg), "computed")
    /\ UNCHANGED <<others, calls, db, shared, font_cache, quey_cache, monospace_cache, locks>>

\* The rest of swash_image, and the entry's insert.
SwashImage(t) ==
    /\ th[t].pc = "gi_ret"
    /\ th[t].op = "get_image"
    /\ image_cache' = Insert(image_cache, th[t].arg, SwashImageOf(th[t].tmp, th[t].arg))
    /\ obs' = [obs EXCEPT
                  !.n_warn[th[t].arg] = IF th[t].tmp = None THEN Bump(@) ELSE @,
                  !.n_render[th[t].arg] = IF th[t].tmp = None THEN @ ELSE Bump(@)]
    /\ Return(t, SwashImageOf(th[t].tmp, th[t].arg), "computed")
    /\ UNCHANGED <<others, calls, db, shared, font_cache, quey_cache, monospace_cache, locks>>

(***************************************************************************)
(* SwashCache::get_image_uncached                                          *)
(***************************************************************************)
\* swash_image(&mut self.context, cache_key): straight to FONT_SYSTEM.get_font.
GetImageUncached(t) ==
    /\ IsSwashOwner(t)
    /\ th[t].pc = "idle"
    /\ \E key \in CacheKeyInputs(db) : Begin(t, "get_image_uncached", key, "gf_r", FALSE)
    /\ UNCHANGED <<others, db, shared, font_cache, quey_cache, monospace_cache, locks,
                   image_cache, obs>>

\* SwashImageUncached as it would be if it kept its image, as get_image does.
SwashImageUncachedKeeps(t) ==
    /\ th[t].pc = "gi_ret"
    /\ th[t].op = "get_image_uncached"
    /\ image_cache' = Insert(image_cache, th[t].arg, SwashImageOf(th[t].tmp, th[t].arg))
    /\ obs' = [obs EXCEPT
                  !.n_warn[th[t].arg] = IF th[t].tmp = None THEN Bump(@) ELSE @,
                  !.n_render[th[t].arg] = IF th[t].tmp = None THEN @ ELSE Bump(@)]
    /\ Return(t, SwashImageOf(th[t].tmp, th[t].arg), "computed")
    /\ UNCHANGED <<others, calls, db, shared, font_cache, quey_cache, monospace_cache, locks>>

\* The rest of swash_image; its value goes to the caller and nowhere else.
SwashImageUncached(t) ==
    /\ th[t].pc = "gi_ret"
    /\ th[t].op = "get_image_uncached"
    /\ obs' = [obs EXCEPT
                  !.n_warn[th[t].arg] = IF th[t].tmp = None THEN Bump(@) ELSE @,
                  !.n_render[th[t].arg] = IF th[t].tmp = None THEN @ ELSE Bump(@)]
    /\ Return(t, SwashImageOf(th[t].tmp, th[t].arg), "computed")
    /\ UNCHANGED <<others, calls, db, shared, font_cache, quey_cache, monospace_cache, locks,
                   image_cache>>

(***************************************************************************)
(* SwashCache::get_outline_commands and swash_outline_commands             *)
(***************************************************************************)
\* get_font on the caller's own FontSystem: &mut gives the call the whole
\* FontSystem, so its locks are free and the call runs through.
GetFontOwn(fs, id) ==
    IF id \in DOMAIN fs.font_cache
    THEN [font |-> fs.font_cache[id], fs |-> fs]
    ELSE [font |-> Construct(fs.db, id),
          fs |-> [fs EXCEPT !.shared = @ \cup ({id} \cap (1..Len(fs.db))),
                            !.font_cache = Insert(@, id, Construct(fs.db, id))]]

\* SwashOutlineCommandsOf as it would be if the color outline were tried first,
\* the order Render's sources have.
SwashOutlineCommandsColorFirst(font, key) ==
    IF font = None THEN None
    ELSE OrElse(ScaleColorOutline(key.glyph_id), ScaleOutline(key.glyph_id))

\* scale_outline(glyph).or_else(|| scale_color_outline(glyph))?, then the
\* path's commands.
SwashOutlineCommandsOf(font, key) ==
    IF font = None THEN None
    ELSE OrElse(ScaleOutline(key.glyph_id), ScaleColorOutline(key.glyph_id))

\* self.outline_command_cache.entry(cache_key).or_insert_with(...).as_deref()
GetOutlineCommands(t) ==
    /\ IsSwashOwner(t)
    /\ th[t].pc = "idle"
    /\ calls < MaxCalls
    /\ calls' = calls + 1
    /\ \E key \in CacheKeyInputs(db) :
          IF Vacant(outline_command_cache, key)
          THEN LET g == GetFontOwn(font_system, key.font_id)
                   r == SwashOutlineCommandsOf(g.font, key)
               IN  /\ font_system' = g.fs
                   /\ outline_command_cache' = Insert(outline_command_cache, key, r)
                   /\ obs' = [obs EXCEPT
                                 !.n_warn[key] = IF g.font = None THEN Bump(@) ELSE @,
                                 !.n_scale[key] = IF g.font = None THEN @ ELSE Bump(@)]
                   /\ th' = [th EXCEPT ![t] =
                                [IdleThread EXCEPT !.pc = "ret", !.op = "get_outline_commands",
                                                   !.arg = key, !.tmp = r, !.via = "computed"]]
          ELSE /\ th' = [th EXCEPT ![t] =
                            [IdleThread EXCEPT !.pc = "ret", !.op = "get_outline_commands",
                                               !.arg = key, !.tmp = outline_command_cache[key],
                                               !.via = "occupied"]]
               /\ UNCHANGED <<font_system, outline_command_cache, obs>>
    /\ UNCHANGED <<layout, db, shared, font_cache, quey_cache, monospace_cache, locks,
                   image_cache>>

(***************************************************************************)
(* SwashCache::with_pixels                                                 *)
(***************************************************************************)
Rgba8(r, g, b, a) == [r |-> r, g |-> g, b |-> b, a |-> a]
Black == Rgba8(0, 0, 0, 255)
BaseColors == {Black, Rgba8(255, 0, 0, 128)}

\* How a call ends: the callbacks made, in order, each <<x, y, color>>;
\* whether the call panicked; whether the SubpixelMask warning was logged.
Done(acc) == [calls |-> acc, panic |-> FALSE, warned |-> FALSE]
Panicked(acc) == [calls |-> acc, panic |-> TRUE, warned |-> FALSE]

\* The color the callback gets for the pixel whose data starts at index i.
PixelColor(image, i) ==
    IF image.content = "Mask" THEN Black
    ELSE Rgba8(Byte(image.data, i), Byte(image.data, i + 1), Byte(image.data, i + 2),
               Byte(image.data, i + 3))

\* PixelLoop as it would be if the color bytes were read one pixel late.
RECURSIVE PixelLoopSkewed(_, _, _, _, _, _, _, _)
PixelLoopSkewed(image, x, y, off_y, off_x, i, checks, acc) ==
    IF off_y >= AsI32(image.placement.height) THEN Done(acc)
    ELSE IF off_x >= AsI32(image.placement.width)
         THEN PixelLoopSkewed(image, x, y, off_y + 1, 0, i, checks, acc)
    ELSE IF checks /\ (AddOverflows(x, off_x) \/ AddOverflows(y, off_y)) THEN Panicked(acc)
    ELSE IF image.content = "Color" /\ ~InData(image.data, i + 7) THEN Panicked(acc)
    ELSE PixelLoopSkewed(image, x, y, off_y, off_x + 1,
                         IF image.content = "Color" THEN i + 4 ELSE i + 1, checks,
                         Append(acc, <<WrappingAdd(x, off_x), WrappingAdd(y, off_y),
                                       PixelColor(image, i + 4)>>))

\* PixelLoop as it would be with the two for loops exchanged.
RECURSIVE PixelLoopColumns(_, _, _, _, _, _, _, _)
PixelLoopColumns(image, x, y, off_y, off_x, i, checks, acc) ==
    IF off_x >= AsI32(image.placement.width) THEN Done(acc)
    ELSE IF off_y >= AsI32(image.placement.height)
         THEN PixelLoopColumns(image, x, y, 0, off_x + 1, i, checks, acc)
    ELSE IF checks /\ (AddOverflows(x, off_x) \/ AddOverflows(y, off_y)) THEN Panicked(acc)
    ELSE IF image.content = "Color" /\ ~InData(image.data, i + 3) THEN Panicked(acc)
    ELSE PixelLoopColumns(image, x, y, off_y + 1, off_x,
                          IF image.content = "Color" THEN i + 4 ELSE i + 1, checks,
                          Append(acc, <<WrappingAdd(x, off_x), WrappingAdd(y, off_y),
                                        PixelColor(image, i)>>))

\* for off_y in 0..height as i32 { for off_x in 0..width as i32 { f(..) } }
\* from (off_y, off_x) on, with i the data index.  x + off_x and y + off_y
\* are i32 sums; image.data[i + 3] past the end is a panic.  (In the Mask
\* arm i is counted and never read.)
RECURSIVE PixelLoop(_, _, _, _, _, _, _, _)
PixelLoop(image, x, y, off_y, off_x, i, checks, acc) ==
    IF off_y >= AsI32(image.placement.height) THEN Done(acc)
    ELSE IF off_x >= AsI32(image.placement.width)
         THEN PixelLoop(image, x, y, off_y + 1, 0, i, checks, acc)
    ELSE IF checks /\ (AddOverflows(x, off_x) \/ AddOverflows(y, off_y)) THEN Panicked(acc)
    ELSE IF image.content = "Color" /\ ~InData(image.data, i + 3) THEN Panicked(acc)
    ELSE PixelLoop(image, x, y, off_y, off_x + 1,
                   IF image.content = "Color" THEN i + 4 ELSE i + 1, checks,
                   Append(acc, <<WrappingAdd(x, off_x), WrappingAdd(y, off_y),
                                 PixelColor(image, i)>>))

\* PixelsOf as it would be if a SubpixelMask image were walked as a Mask is.
PixelsOfSubpixelAsMask(img, checks) ==
    IF img = None THEN Done(<<>>)
    ELSE IF checks /\ NegOverflows(img[1].placement.top) THEN Panicked(<<>>)
    ELSE PixelLoop([img[1] EXCEPT !.content = IF @ = "SubpixelMask" THEN "Mask" ELSE @],
                   img[1].placement.left, WrappingNeg(img[1].placement.top),
                   0, 0, 0, checks, <<>>)

\* The body of with_pixels once get_image has answered img.  checks: the
\* build has overflow checks (a debug build has, a release build has not).
PixelsOf(img, checks) ==
    IF img = None THEN Done(<<>>)
    ELSE IF checks /\ NegOverflows(img[1].placement.top) THEN Panicked(<<>>)
    ELSE IF img[1].content = "SubpixelMask" THEN [Done(<<>>) EXCEPT !.warned = TRUE]
    ELSE PixelLoop(img[1], img[1].placement.left, WrappingNeg(img[1].placement.top),
                   0, 0, 0, checks, <<>>)

\* if let Some(image) = self.get_image(cache_key): an occupied entry is
\* walked at once, a vacant one sends get_image to swash_image first.
CallWithPixels(t) ==
    /\ IsSwashOwner(t)
    /\ th[t].pc = "idle"
    /\ \E key \in CacheKeyInputs(db), base \in BaseColors, checks \in BOOLEAN :
          LET arg == [key |-> key, base |-> base, checks |-> checks]
          IN  IF Vacant(image_cache, key)
              THEN Begin(t, "with_pixels", arg, "gf_r", FALSE)
              ELSE /\ calls < MaxCalls
                   /\ calls' = calls + 1
                   /\ th' = [th EXCEPT ![t] =
                                [IdleThread EXCEPT !.pc = "ret", !.op = "with_pixels",
                                                   !.arg = arg,
                                                   !.tmp = PixelsOf(image_cache[key], checks),
                                                   !.via = "occupied"]]
    /\ UNCHANGED <<others, db, shared, font_cache, quey_cache, monospace_cache, locks,
                   image_cache, obs>>

\* The rest of swash_image, the entry's insert, and the walk of the image.
WithPixelsImage(t) ==
    /\ th[t].pc = "gi_ret"
    /\ th[t].op = "with_pixels"
    /\ image_cache' = Insert(image_cache, KeyOf(t), SwashImageOf(th[t].tmp, KeyOf(t)))
    /\ obs' = [obs EXCEPT
                  !.n_warn[KeyOf(t)] = IF th[t].tmp = None THEN Bump(@) ELSE @,
                  !.n_render[KeyOf(t)] = IF th[t].tmp = None THEN @ ELSE Bump(@)]
    /\ Return(t, PixelsOf(SwashImageOf(th[t].tmp, KeyOf(t)), th[t].arg.checks), "computed")
    /\ UNCHANGED <<others, calls, db, shared, font_cache, quey_cache, monospace_cache, locks>>

WithPixels(t) == CallWithPixels(t) \/ WithPixelsImage(t)

\* The images the owner can put into the public map itself.
Placement(left, top, width, height) ==
    [left |-> left, top |-> top, width |-> width, height |-> height]
Image(content, placement, data) ==
    [content |-> content, placement |-> placement, data |-> data]
SyntheticImages ==
    {MaskImage,
     Image("Mask", Placement(-1, 0, U32(0, 3), U32(0, 2)), Bytes(<<9, 9, 9, 9, 9, 9>>)),
     Image("Mask", Placement(5, 5, U32(0, 0), U32(0, 2)), Bytes(<<>>)),
     Image("Mask", Placement(I32Min, 0, U32(Half \div 2, 0), U32(0, 1)), Bytes(<<>>)),
     Image("Mask", Placement(I32Max, 0, U32(0, 2), U32(0, 1)), Bytes(<<7, 7>>)),
     Image("Mask", Placement(0, I32Min, U32(0, 1), U32(0, 1)), Bytes(<<7>>)),
     ColorImage,
     Image("Color", Placement(2, -1, U32(0, 2), U32(0, 2)),
           Bytes(<<1, 2, 3, 4, 5, 6, 7, 8, 9, 10, 11, 12, 13, 14, 15, 16>>)),
     Image("Color", Placement(0, 0, U32(0, 2), U32(0, 1)), Bytes(<<1, 2, 3, 4, 5, 6>>)),
     Image("Color", Placement(I32Max, 0, U32(0, 2), U32(0, 1)),
           Bytes(<<1, 2, 3, 4, 5, 6, 7, 8>>)),
     Image("Color", Placement(I32Min, 0, U32(Half \div 2, 0), U32(0, 1)),
           Repeat(<<1, 2, 3, 4>>, U32(Half \div 2, 0))),
     Image("SubpixelMask", Placement(1, 3, U32(0, 2), U32(0, 2)),
           Bytes(<<1, 2, 3, 4, 5, 6, 7, 8, 9, 10, 11, 12, 13, 14, 15, 16>>)),
     Image("SubpixelMask", Placement(0, I32Min, U32(0, 1), U32(0, 1)), Bytes(<<1, 2, 3, 4>>))}

\* pub image_cache: the owner inserts an image of its own under a key.
PutImage(t) ==
    /\ IsSwashOwner(t)
    /\ th[t].pc = "idle"
    /\ \E key \in CacheKeyInputs(db), image \in SyntheticImages :
          /\ Vacant(image_cache, key)
          /\ image_cache' = Insert(image_cache, key, Some(image))
    /\ UNCHANGED <<others, calls, db, shared, font_cache, quey_cache, monospace_cache, locks,
                   th, obs>>

(***************************************************************************)
(* The system.                                                             *)
(***************************************************************************)
Load(t) ==
    \/ CallLoadFontFile(t)
    \/ CallLoadFontsDir(t)
    \/ CallLoadFontData(t)
    \/ LoadAcquire(t)
    \/ LoadCommit(t)

GetFont(t) ==
    \/ GfRead(t)
    \/ GfWrite(t)
    \/ GfMakeShared(t)
    \/ GfConstruct(t)

Query(t) ==
    \/ CallQuery(t)
    \/ QRead(t)
    \/ QWrite(t)
    \/ QDbQuery(t)

QueryMonospace(t) ==
    \/ CallQueryMonospace(t)
    \/ QmRead(t)
    \/ QmScan(t)
    \/ QmInsertSome(t)
    \/ QmInsertNone(t)

FaceNameOp(t) == CallFaceName(t) \/ FaceNameRead(t)

GetImage(t) == CallGetImage(t) \/ SwashImage(t)

\* The FontSystem alone.
FontSystemNext ==
    \E t \in Procs :
        \/ Exit(t)
        \/ Park(t)
        \/ Load(t)
        \/ CallGetFont(t)
        \/ GetFont(t)
        \/ Query(t)
        \/ QueryMonospace(t)
        \/ FaceNameOp(t)

FontSystemSpec == Init /\ [][FontSystemNext]_vars

\* A step inside a call of the FontSystem that thread t has begun.
Step(t) ==
    \/ Park(t)
    \/ LoadAcquire(t)
    \/ LoadCommit(t)
    \/ GetFont(t)
    \/ QRead(t)
    \/ QWrite(t)
    \/ QDbQuery(t)
    \/ QmRead(t)
    \/ QmScan(t)
    \/ QmInsertSome(t)
    \/ QmInsertNone(t)
    \/ FaceNameRead(t)

\* Every thread that can take a step of its call eventually takes one: the
\* scheduler runs every runnable thread, and the locks are fair.
LiveSpec == FontSystemSpec /\ \A t \in Procs : WF_vars(Step(t))

\* query_monospace alone, over a database that does not change.
MonoInit ==
    /\ db \in MonoCatalogs
    /\ layout = AllCacheKeys
    /\ font_system = OwnFontSystem(<<>>)
    /\ Fresh
MonoNext == \E t \in Lookups : Exit(t) \/ QueryMonospace(t)
MonoSpec == MonoInit /\ [][MonoNext]_vars

\* One SwashCache and its owner, over a database that does not change:
\* face 1 is usable, face 2 does not parse, id 0 names no face.
SwashCatalog == <<FaceA, FaceM>>
SwashFontSystems == {OwnFontSystem(SwashCatalog), OwnFontSystem(<<FaceA>>)}
SwashKey(id, g, xb, yb) ==
    [font_id |-> id, glyph_id |-> g, font_size |-> 16, x_bin |-> xb, y_bin |-> yb]
SwashLayouts ==
    {{SwashKey(1, 1, "Zero", "Zero"), SwashKey(1, 1, "One", "Zero"),
      SwashKey(1, 1, "Zero", "One"), SwashKey(1, 2, "Zero", "Zero")},
     {SwashKey(1, g, "Zero", "Zero") : g \in SwashGlyphs},
     {SwashKey(0, 1, "Zero", "Zero"), SwashKey(2, 1, "Zero", "Zero"),
      SwashKey(1, 2, "Zero", "Zero"), SwashKey(1, 3, "One", "One")}}
SwashInit ==
    /\ db = SwashCatalog
    /\ layout \in SwashLayouts
    /\ font_system \in SwashFontSystems
    /\ Fresh
Uncached(t) == GetImageUncached(t) \/ SwashImageUncached(t)
SwashNext ==
    \E t \in Procs :
        \/ Exit(t)
        \/ GetFont(t)
        \/ GetImage(t)
        \/ Uncached(t)
        \/ GetOutlineCommands(t)
SwashSpec == SwashInit /\ [][SwashNext]_vars

\* with_pixels over one SwashCache, whose owner also fills the map itself.
PixelLayout ==
    {SwashKey(1, 1, "Zero", "Zero"), SwashKey(1, 3, "Zero", "Zero"),
     SwashKey(0, 1, "Zero", "Zero")}
PixelInit ==
    /\ db = SwashCatalog
    /\ layout = PixelLayout
    /\ font_system = OwnFontSystem(<<>>)
    /\ Fresh
PixelNext ==
    \E t \in Procs :
        \/ Exit(t)
        \/ GetFont(t)
        \/ PutImage(t)
        \/ WithPixels(t)
PixelSpec == PixelInit /\ [][PixelNext]_vars

Next == FontSystemNext \/ \E t \in Procs : GetImage(t)

Spec == Init /\ [][Next]_vars

(***************************************************************************)
(* Properties.                                                             *)
(***************************************************************************)
\* Thread t has op's value in hand.
AtRet(t, op) == th[t].pc = "ret" /\ th[t].op = op
\* Thread t gets op's value in this step.
Returns(t, op) == th[t].pc # "ret" /\ th'[t].pc = "ret" /\ th'[t].op = op

\* C1: threads that call query with the same, not yet cached FontAttrs key
\* concurrently all get the same Option<ID>, which is the one entry the query
\* cache then holds for the key, whatever loads run meanwhile.
C1_SameResult ==
    /\ \A t \in Lookups :
          AtRet(t, "query") =>
             /\ QueryKey(t) \in DOMAIN quey_cache
             /\ th[t].tmp = quey_cache[QueryKey(t)]
    /\ \A s, t \in Lookups :
          AtRet(s, "query") /\ AtRet(t, "query") /\ QueryKey(s) = QueryKey(t)
             => th[s].tmp = th[t].tmp

\* Two threads missed on the same key together: one ran the database query,
\* the other found the entry filled under the write lock, and a load ran.
C1_Witness ==
    \E s, t \in Lookups :
        /\ AtRet(s, "query") /\ AtRet(t, "query")
        /\ QueryKey(s) = QueryKey(t)
        /\ th[s].via = "computed" /\ th[t].via = "occupied"
        /\ db # <<>>

\* C2: once the monospace cache holds an entry for a key, no step changes
\* the entry's value (or removes it).
C2_NeverOverwritten ==
    [][\A k \in DOMAIN monospace_cache :
          /\ k \in DOMAIN monospace_cache'
          /\ monospace_cache'[k] = monospace_cache[k]]_vars

\* C3: an entry of font_cache or of the query cache is never removed and its
\* value, None included, is never replaced by another.
C3_EntriesKept ==
    [][/\ \A id \in DOMAIN font_cache :
             id \in DOMAIN font_cache' /\ font_cache'[id] = font_cache[id]
       /\ \A k \in DOMAIN quey_cache :
             k \in DOMAIN quey_cache' /\ quey_cache'[k] = quey_cache[k]]_vars

\* Both caches hold a negative entry that the database has since outgrown: the
\* query cache says None for a family that is now loaded, font_cache holds an
\* entry, and a later query has been answered from the cache.
C3_Witness ==
    /\ \E k \in DOMAIN quey_cache : quey_cache[k] = None /\ Declares(db, k.family[1])
    /\ DOMAIN font_cache # {}
    /\ \E t \in Lookups : AtRet(t, "query") /\ th[t].via = "hit"

\* C4: every value query has returned for a FontAttrs key is the same value,
\* and the database query has run at most once for the key.
C4_Idempotent ==
    \A k \in QueryKeys :
        /\ Cardinality(obs.q_ret[k]) <= 1
        /\ obs.n_db_query[k] <= 1

\* A second call of query on a key is answered from the cache, after the one
\* database query for the key and after a load that would change its answer.
C4_Witness ==
    \E t \in Lookups :
        /\ AtRet(t, "query") /\ th[t].via = "hit"
        /\ obs.n_db_query[QueryKey(t)] = 1
        /\ th[t].tmp = None
        /\ Declares(db, th[t].arg.family[1])

\* C5: while font_cache holds None for an id, no step enters the construction
\* path for that id and every get_font(id) that returns, returns None; the
\* construction path is entered at most once per id, and get_font returns
\* what font_cache holds.
C5_NegativeMemo ==
    [][/\ \A id \in DOMAIN font_cache :
             font_cache[id] = None =>
                /\ obs'.n_construct[id] = obs.n_construct[id]
                /\ \A t \in Lookups :
                      Returns(t, "get_font") /\ th'[t].arg = id => th'[t].tmp = None
       /\ \A id \in 0..MaxFaces : obs'.n_construct[id] <= 1
       /\ \A t \in Lookups :
             Returns(t, "get_font") =>
                /\ th'[t].arg \in DOMAIN font_cache'
                /\ th'[t].tmp = font_cache'[th'[t].arg]]_vars

\* Two threads missed together on a face that is loaded but does not parse:
\* one ran the construction, the other found None under the write lock.
C5_Witness ==
    \E s, t \in Lookups :
        /\ AtRet(s, "get_font") /\ AtRet(t, "get_font")
        /\ th[s].arg = th[t].arg
        /\ HasFace(db, th[s].arg)
        /\ th[s].via = "computed" /\ th[t].via = "occupied"
        /\ th[s].tmp = None /\ th[t].tmp = None
        /\ obs.n_construct[th[s].arg] = 1

\* The original statement of C6: a query([F], default attrs) that begins
\* when a font file declaring F is loaded returns Some id whose face_name
\* is F, whatever lookups ran before the load (F being the name face_name
\* reports: the first family name of the faces that declare it).
C6_RoundTrip ==
    \A t \in Lookups :
        /\ AtRet(t, "query") /\ th[t].late /\ th[t].arg.attrs = DefaultAttrs
        /\ FirstNameOnly(db, th[t].arg.family[1])
        => /\ th[t].tmp # None
           /\ FaceName(db, th[t].tmp[1]) = th[t].arg.family[1]

\* C6: a query([F], default attrs) that begins when a font file declaring F
\* is loaded returns Some id whose face_name is F, provided no query for the
\* same key began before F was loaded and F is the first family name of
\* every loaded face that declares it.
C6_FreshKey ==
    \A t \in Lookups :
        /\ AtRet(t, "query") /\ th[t].late /\ th[t].arg.attrs = DefaultAttrs
        /\ QueryKey(t) \notin obs.early
        /\ FirstNameOnly(db, th[t].arg.family[1])
        => /\ th[t].tmp # None
           /\ FaceName(db, th[t].tmp[1]) = th[t].arg.family[1]

\* Lookups ran before the load (a query on another key, a get_font), and the
\* query of the loaded family then found its face.
C6_Witness ==
    \E t \in Lookups :
        /\ AtRet(t, "query") /\ th[t].late /\ th[t].arg.attrs = DefaultAttrs
        /\ QueryKey(t) \notin obs.early
        /\ FirstNameOnly(db, th[t].arg.family[1])
        /\ th[t].via = "computed"
        /\ th[t].tmp # None
        /\ obs.early # {}
        /\ DOMAIN font_cache # {}

RECURSIVE SumOver(_, _)
SumOver(f, S) ==
    IF S = {} THEN 0
    ELSE LET x == CHOOSE y \in S : TRUE IN f[x] + SumOver(f, S \ {x})

\* The 'did not find font' warnings logged for id, over all keys.
Warnings(id) == SumOver(obs.n_warn, {k \in AllCacheKeys : k.font_id = id})

\* The original statement of C7: get_image for a key whose face does not
\* exist returns None, and at most one warning is logged per missing id.
C7_OncePerId ==
    /\ \A t \in Lookups :
          AtRet(t, "get_image") /\ ~HasFace(db, th[t].arg.font_id) => th[t].tmp = None
    /\ \A id \in 0..MaxFaces : ~HasFace(db, id) => Warnings(id) <= 1

\* C7: get_image for a key whose face does not exist returns None, and at
\* most one warning is logged per distinct CacheKey of a missing face.
C7_OncePerKey ==
    /\ \A t \in Lookups :
          AtRet(t, "get_image") /\ ~HasFace(db, th[t].arg.font_id) => th[t].tmp = None
    /\ \A k \in AllCacheKeys : ~HasFace(db, k.font_id) => obs.n_warn[k] <= 1

\* get_image was called again for a key of a missing face: the second call
\* is answered None from image_cache and the one warning stands.
C7_Witness ==
    \E t \in Lookups :
        /\ AtRet(t, "get_image") /\ th[t].via = "occupied"
        /\ ~HasFace(db, th[t].arg.font_id)
        /\ th[t].tmp = None
        /\ obs.n_warn[th[t].arg] = 1

\* The cache a thread at its first read is about to look in.
CacheOf(t) ==
    CASE th[t].pc = "gf_r" -> "font_cache"
      [] th[t].pc = "q_r" -> "quey_cache"
      [] th[t].pc = "qm_r" -> "monospace_cache"
      [] OTHER -> "none"
\* Thread t is at the first read of a lookup whose key is cached.
Cached(t) ==
    \/ th[t].pc = "gf_r" /\ FontId(t) \in DOMAIN font_cache
    \/ th[t].pc = "q_r" /\ QueryKey(t) \in DOMAIN quey_cache
    \/ th[t].pc = "qm_r" /\ MonoKey(th[t].arg) \in DOMAIN monospace_cache
ReadStep(t) == GfRead(t) \/ QRead(t) \/ QmRead(t)
LoadHolds == th[0].pc = "ld_hold"
LoadPending == th[0].pc \in {"ld_w", "ld_hold"}

\* The original statement of C8: while a load holds the database write lock
\* a lookup of a cached key can complete.  It cannot when another thread
\* holds the write lock of its cache: that thread is inside or_insert_with,
\* waiting for the database, and the lookup waits for that thread.
C8_Unaffected ==
    \A t \in Lookups : Cached(t) /\ LoadHolds => locks[CacheOf(t)].w = {}

\* C8: a lookup of a cached key needs its own cache's lock only, never the
\* database lock: it can complete exactly when that lock admits a reader,
\* also while a load holds or waits for the database write lock, and what
\* holds it up then is another lookup that holds or waits for the write lock
\* of the same cache.
C8_CachedRead ==
    \A t \in Lookups :
        Cached(t) =>
           /\ ENABLED ReadStep(t) <=> CanRead(CacheOf(t))
           /\ LoadPending /\ ~ENABLED ReadStep(t) =>
                 \E s \in Lookups \ {t} :
                     /\ s \in locks[CacheOf(t)].w \cup locks[CacheOf(t)].q
                     /\ th[s].pc \in {"gf_w", "gf_dbw", "gf_dbr", "q_w", "q_db"}

\* A lookup of a cached key can complete while a load holds the database
\* write lock and another lookup, on another cache, waits for the database.
C8_Witness ==
    \E t, s \in Lookups :
        /\ Cached(t) /\ LoadHolds
        /\ ENABLED ReadStep(t)
        /\ th[s].pc \in {"gf_dbw", "q_db", "qm_db"}

InCall(t) == th[t].pc \notin {"idle", "ret"}

\* C9: with fair locks and scheduling no state with a call in progress is
\* stuck, and every call that has begun returns: a run begins MaxCalls calls
\* at most, so from some point on no call is in progress.
C9_Completes ==
    /\ [](\A t \in Procs : InCall(t) => \E u \in Procs : ENABLED Step(u))
    /\ <>[](\A t \in Procs : ~InCall(t))

\* A chain of waiting threads: one is parked on font_cache behind a thread
\* that holds it and is parked on the database, which a load holds.
C9_Witness ==
    \E s, t \in Lookups :
        /\ LoadHolds
        /\ th[t].pc = "gf_dbw" /\ t \in locks["db"].q
        /\ th[s].pc = "gf_w" /\ s \in locks["font_cache"].q

Qualifies(d, i, a) ==
    /\ d[i].monospaced
    /\ d[i].style = a.style
    /\ d[i].weight = a.weight
    /\ d[i].stretch = a.stretch

\* C11: over a database that does not change, query_monospace(attrs) returns
\* None when no face qualifies and otherwise the qualifying face that comes
\* first in enumeration order, on every call and from every fresh cache.
C11_FirstMatch ==
    \A t \in Lookups :
        AtRet(t, "query_monospace") =>
           IF th[t].tmp = None
           THEN \A i \in 1..Len(db) : ~Qualifies(db, i, th[t].arg)
           ELSE /\ th[t].tmp[1] \in 1..Len(db)
                /\ Qualifies(db, th[t].tmp[1], th[t].arg)
                /\ \A j \in 1..(th[t].tmp[1] - 1) : ~Qualifies(db, j, th[t].arg)

\* Two faces qualify, and a repeated call is answered with the first of them
\* from the cache.
C11_Witness ==
    \E t \in Lookups :
        /\ AtRet(t, "query_monospace") /\ th[t].via = "hit"
        /\ Cardinality({i \in 1..Len(db) : Qualifies(db, i, th[t].arg)}) >= 2
        /\ th[t].tmp = Some(1)

C12_OneEntryPerKey ==
    [][/\ \A k \in DOMAIN image_cache :
             k \in DOMAIN image_cache' /\ image_cache'[k] = image_cache[k]
       /\ \A k \in DOMAIN image_cache' \ DOMAIN image_cache :
             \E t \in Procs : Returns(t, "get_image") /\ th'[t].arg = k
       /\ \A t \in Procs :
             Returns(t, "get_image") =>
                 /\ th'[t].arg \in DOMAIN image_cache'
                 /\ th'[t].tmp = image_cache'[th'[t].arg]
                 /\ th'[t].arg \in DOMAIN image_cache => obs'.n_render = obs.n_render]_vars

\* get_image has answered from the map, for a key whose sibling in the other
\* x bin has an entry of its own, holding another image, each rasterized once.
C12_Witness ==
    \E t \in Procs :
        /\ AtRet(t, "get_image")
        /\ th[t].via = "occupied"
        /\ th[t].arg.x_bin = "Zero"
        /\ LET k == th[t].arg
               k1 == [th[t].arg EXCEPT !.x_bin = "One"]
           IN  /\ k1 \in DOMAIN image_cache
               /\ image_cache[k1] # None
               /\ image_cache[k] # None
               /\ image_cache[k1] # image_cache[k]
               /\ obs.n_render[k] = 1
               /\ obs.n_render[k1] = 1

\* The glyph has a source that Render or the scaler can draw.
Renderable(g) == HasOutline(g) \/ HasColorOutline(g)
\* Thread t begins get_image in this step.
BeginsGetImage(t) == th[t].pc = "idle" /\ th'[t].op = "get_image"

\* C13: a get_image call for a key not in image_cache goes to get_font; when
\* get_font answers None, or the glyph has nothing to render, the call stores
\* None under the key and returns None; a stored None stays; and a get_image
\* call for a key stored with None returns None at once, with no step of
\* get_font, no rasterization, no warning and no change to any cache.
C13_NoneIsCached ==
    [][\A t \in Procs :
          /\ BeginsGetImage(t) /\ th'[t].arg \notin DOMAIN image_cache => th'[t].pc = "gf_r"
          /\ (/\ th[t].pc = "gi_ret"
              /\ th[t].op = "get_image"
              /\ th'[t].pc = "ret"
              /\ th[t].tmp = None \/ ~Renderable(th[t].arg.glyph_id))
                => /\ th[t].arg \in DOMAIN image_cache'
                   /\ image_cache'[th[t].arg] = None
                   /\ th'[t].tmp = None
          /\ \A k \in DOMAIN image_cache :
                image_cache[k] = None => k \in DOMAIN image_cache' /\ image_cache'[k] = None
          /\ (/\ BeginsGetImage(t)
              /\ th'[t].arg \in DOMAIN image_cache
              /\ image_cache[th'[t].arg] = None)
                => /\ th'[t].pc = "ret"
                   /\ th'[t].tmp = None
                   /\ obs' = obs
                   /\ font_cache' = font_cache
                   /\ shared' = shared
                   /\ image_cache' = image_cache]_vars

\* get_image has answered None from the map, which holds a None for a key
\* whose font get_font did not find and a None for a glyph with nothing to
\* render in a font that get_font did find.
C13_Witness ==
    /\ \E t \in Procs :
          /\ AtRet(t, "get_image")
          /\ th[t].via = "occupied"
          /\ th[t].tmp = None
          /\ Construct(db, th[t].arg.font_id) = None
    /\ \E k \in DOMAIN image_cache :
          /\ image_cache[k] = None
          /\ Construct(db, k.font_id) # None
          /\ ~Renderable(k.glyph_id)

\* C14: no step of a get_image_uncached call changes image_cache or
\* outline_command_cache; every such call goes to get_font, whether or not
\* its key has an entry, and when the font is there it runs the rasterizer
\* and returns what the rasterizer gave.
C14_UncachedBypasses ==
    [][\A t \in Procs :
          /\ (th[t].op = "get_image_uncached" \/ th'[t].op = "get_image_uncached")
                => /\ image_cache' = image_cache
                   /\ outline_command_cache' = outline_command_cache
          /\ th[t].pc = "idle" /\ th'[t].op = "get_image_uncached" => th'[t].pc = "gf_r"
          /\ Returns(t, "get_image_uncached")
                => /\ th'[t].via = "computed"
                   /\ th'[t].tmp = SwashImageOf(th[t].tmp, th[t].arg)
                   /\ th[t].tmp # None
                         => obs'.n_render[th[t].arg] = Bump(obs.n_render[th[t].arg])]_vars

\* get_image_uncached has rasterized a glyph whose image get_image had
\* already rasterized and stored, and whose outline is stored too.
C14_Witness ==
    \E t \in Procs :
        /\ AtRet(t, "get_image_uncached")
        /\ th[t].tmp # None
        /\ th[t].arg \in DOMAIN image_cache
        /\ th[t].arg \in DOMAIN outline_command_cache
        /\ obs.n_render[th[t].arg] = 2

\* What get_outline_commands is to give for key k: the standard outline when
\* the glyph has one, the color outline only when it has no standard one,
\* None when it has neither or font_system does not resolve the font.
OutlineWanted(k) ==
    IF Construct(font_system.db, k.font_id) = None THEN None
    ELSE IF HasOutline(k.glyph_id) THEN Some(OutlineCommands)
    ELSE IF HasColorOutline(k.glyph_id) THEN Some(ColorOutlineCommands)
    ELSE None

\* C17: a get_outline_commands call for a key not in outline_command_cache
\* computes the commands of the standard outline when the glyph has one, of
\* the color outline only when it has no standard one, and None when it has
\* neither or the font is not resolved; it stores that under the key and
\* returns it.  A call for a key in the map returns the stored value and
\* neither scales nor resolves a font nor changes the map.
C17_OutlineMemo ==
    [][\A t \in Procs :
          Returns(t, "get_outline_commands") =>
              LET k == th'[t].arg
              IN  IF k \in DOMAIN outline_command_cache
                  THEN /\ th'[t].tmp = outline_command_cache[k]
                       /\ outline_command_cache' = outline_command_cache
                       /\ font_system' = font_system
                       /\ obs' = obs
                  ELSE /\ th'[t].tmp = OutlineWanted(k)
                       /\ outline_command_cache' = Insert(outline_command_cache, k, OutlineWanted(k))]_vars

\* get_outline_commands has answered from the map, which by now holds the
\* standard outline of a glyph that has both outlines, a color outline, and
\* a None.
C17_Witness ==
    /\ \E t \in Procs :
          /\ AtRet(t, "get_outline_commands")
          /\ th[t].via = "occupied"
          /\ th[t].tmp = Some(OutlineCommands)
          /\ HasColorOutline(th[t].arg.glyph_id)
          /\ obs.n_scale[th[t].arg] = 1
    /\ \E k \in DOMAIN outline_command_cache :
          outline_command_cache[k] = Some(ColorOutlineCommands)
    /\ \E k \in DOMAIN outline_command_cache : outline_command_cache[k] = None

\* The image that the with_pixels call at "ret" has walked.
Walked(t) == image_cache[th[t].arg.key]
WalkedIs(t, content) ==
    /\ AtRet(t, "with_pixels")
    /\ Walked(t) # None
    /\ Walked(t)[1].content = content
\* The placement's sizes are small enough to count through.
Countable(pl) == pl.width.hi = 0 /\ pl.height.hi = 0
\* The k-th pixel in row-major order, k from 0, of an image w wide.
Column(k, w) == k % w
Row(k, w) == k \div w
\* a + (u - 1), the last coordinate of a run of u pixels that starts at a,
\* is an i32.
SpanFits(a, u) ==
    IF u.hi < Half \div 2
    THEN AsI32(u) = 0 \/ ~AddOverflows(a, AsI32(u) - 1)
    ELSE a <= -((u.hi - Half \div 2) * Half + u.lo)
\* Every coordinate (left + c, -top + r) of the image is an i32.
CoordsFit(pl) ==
    /\ pl.top # I32Min
    /\ SpanFits(pl.left, pl.width)
    /\ SpanFits(-pl.top, pl.height)
NoPixels(pl) == pl.width = U32(0, 0) \/ pl.height = U32(0, 0)

\* The callbacks are those of a w x h mask at (left, top): w*h of them, the
\* k-th for column k % w of row k \div w, at (left + column, -top + row),
\* in the foreground color.  Past the sizes that can be counted through, no
\* more than this is asked: an image with pixels gets its first callback.
MaskAsClaimed(pl, out) ==
    /\ ~out.panic
    /\ IF Countable(pl)
       THEN /\ Len(out.calls) = pl.width.lo * pl.height.lo
            /\ \A k \in 0..(Len(out.calls) - 1) :
                  out.calls[k + 1] = <<pl.left + Column(k, pl.width.lo),
                                       -pl.top + Row(k, pl.width.lo), Black>>
       ELSE ~NoPixels(pl) =>
                Len(out.calls) > 0 /\ out.calls[1] = <<pl.left, -pl.top, Black>>

\* C15: with_pixels on a cached mask image of width w and height h at
\* (left, top) makes exactly w*h callbacks, one per column c and row r in
\* row-major order, at (left + c, -top + r), each with the fixed foreground
\* color whatever base_color is.  (Stated for the images all of whose
\* coordinates are i32 values, which is the least the claim can mean.)
C15_MaskPixels ==
    \A t \in Procs :
        WalkedIs(t, "Mask") /\ CoordsFit(Walked(t)[1].placement) =>
            MaskAsClaimed(Walked(t)[1].placement, th[t].tmp)

\* Mask images whose width and height are below 2^31 and whose coordinates
\* are i32 values are walked pixel by pixel in row-major order.
MaskPixelsInRange ==
    \A t \in Procs :
        (/\ WalkedIs(t, "Mask")
         /\ CoordsFit(Walked(t)[1].placement)
         /\ Countable(Walked(t)[1].placement))
            => MaskAsClaimed(Walked(t)[1].placement, th[t].tmp)
MaskPixelsInRange_Witness ==
    \E t \in Procs :
        /\ WalkedIs(t, "Mask")
        /\ Walked(t)[1].placement.width = U32(0, 3)
        /\ Len(th[t].tmp.calls) = 6
        /\ th[t].arg.base # Black

\* C16: with_pixels makes no callback when the image under the key is a
\* SubpixelMask image and none when get_image has None for the key, and in
\* both cases it returns normally.
C16_NoPixels ==
    \A t \in Procs :
        (AtRet(t, "with_pixels") /\ (Walked(t) = None \/ WalkedIs(t, "SubpixelMask")))
            => th[t].tmp.calls = <<>> /\ ~th[t].tmp.panic

\* The same, where -top is an i32 value or the build has no overflow checks;
\* the warning is logged for the SubpixelMask image and not for None.
NoPixelsInRange ==
    \A t \in Procs :
        /\ (AtRet(t, "with_pixels") /\ Walked(t) = None)
              => th[t].tmp = Done(<<>>)
        /\ (/\ WalkedIs(t, "SubpixelMask")
            /\ ~th[t].arg.checks \/ ~NegOverflows(Walked(t)[1].placement.top))
              => th[t].tmp = [Done(<<>>) EXCEPT !.warned = TRUE]
NoPixelsInRange_Witness ==
    /\ \E t \in Procs : WalkedIs(t, "SubpixelMask") /\ th[t].tmp.warned
    /\ \E k \in DOMAIN image_cache : image_cache[k] = None

\* The image's data holds 4 * w * h bytes: counted, where the sizes can be
\* counted through; for a larger image, one that is a single row or column
\* whose data is a 4-byte run repeated once per pixel.
HoldsAllBytes(image) ==
    IF Countable(image.placement)
    THEN /\ image.data.times.hi = 0
         /\ Len(image.data.run) * image.data.times.lo
              = 4 * image.placement.width.lo * image.placement.height.lo
    ELSE /\ Len(image.data.run) = 4
         /\ \/ image.placement.height = U32(0, 1) /\ image.data.times = image.placement.width
            \/ image.placement.width = U32(0, 1) /\ image.data.times = image.placement.height
\* The callbacks are w*h, and the k-th, k from 0, has the color made of the
\* data bytes 4k, 4k+1, 4k+2, 4k+3; no read went past the data.  Past the
\* sizes that can be counted through, no more than this is asked: an image
\* with pixels gets its first callback, with the color of its first bytes.
ColorAsClaimed(image, out) ==
    /\ ~out.panic
    /\ IF Countable(image.placement)
       THEN /\ Len(out.calls) = image.placement.width.lo * image.placement.height.lo
            /\ \A k \in 0..(Len(out.calls) - 1) :
                  /\ InData(image.data, 4 * k + 3)
                  /\ out.calls[k + 1][3] =
                        Rgba8(Byte(image.data, 4 * k), Byte(image.data, 4 * k + 1),
                              Byte(image.data, 4 * k + 2), Byte(image.data, 4 * k + 3))
       ELSE ~NoPixels(image.placement) =>
                /\ Len(out.calls) > 0
                /\ out.calls[1][3] = Rgba8(Byte(image.data, 0), Byte(image.data, 1),
                                           Byte(image.data, 2), Byte(image.data, 3))

\* C19: with_pixels on a color image of width w and height h whose data
\* holds 4*w*h bytes makes exactly w*h callbacks, the k-th in row-major
\* order (k from 0) with the color whose R, G, B, A are data bytes 4k, 4k+1,
\* 4k+2, 4k+3, and never reads at or past the data's length.  (Stated for
\* the images all of whose pixel coordinates are i32 values, which is the
\* least the claim can mean.)
C19_ColorPixels ==
    \A t \in Procs :
        (/\ WalkedIs(t, "Color")
         /\ HoldsAllBytes(Walked(t)[1])
         /\ CoordsFit(Walked(t)[1].placement))
            => ColorAsClaimed(Walked(t)[1], th[t].tmp)

\* Color images whose width and height are below 2^31, whose data holds
\* 4*w*h bytes and whose coordinates are i32 values are walked pixel by
\* pixel; the callbacks come at (left + column, -top + row).
ColorPixelsInRange ==
    \A t \in Procs :
        (/\ WalkedIs(t, "Color")
         /\ HoldsAllBytes(Walked(t)[1])
         /\ CoordsFit(Walked(t)[1].placement)
         /\ Countable(Walked(t)[1].placement))
            => /\ ColorAsClaimed(Walked(t)[1], th[t].tmp)
               /\ \A k \in 0..(Len(th[t].tmp.calls) - 1) :
                     LET pl == Walked(t)[1].placement
                     IN  /\ th[t].tmp.calls[k + 1][1] = pl.left + Column(k, pl.width.lo)
                         /\ th[t].tmp.calls[k + 1][2] = -pl.top + Row(k, pl.width.lo)
ColorPixelsInRange_Witness ==
    \E t \in Procs :
        /\ WalkedIs(t, "Color")
        /\ Len(th[t].tmp.calls) = 4
        /\ th[t].tmp.calls[4] = <<3, 2, Rgba8(13, 14, 15, 16)>>
====
